---- MODULE Spec2Model ----
(***************************************************************************)
(* Secret-santa application (app.py): the assignment search                *)
(* find_assignment, the password generator gen_password_christmas and the  *)
(* admin request handlers that use them over the persisted configuration   *)
(* and participants table.                                                 *)
(*                                                                         *)
(* Python lists are functions over 0..n-1 (the code's own indices), dicts  *)
(* are functions over their key set, random draws are nondeterministic     *)
(* choices over everything the draw can produce.                           *)
(***************************************************************************)
EXTENDS Integers, Sequences, FiniteSets, TLC

VARIABLES
    pc,            \* position of the running call / request
    caller,        \* who called find_assignment / gen_password_christmas
    names,         \* find_assignment's names (admin_generate's names)
    compat,        \* find_assignment's compat_matrix (admin_generate's compat)
    max_tries,     \* find_assignment's max_tries
    tries,         \* iterations of find_assignment's loop started so far
    perm,          \* find_assignment's perm, the last shuffled candidate
    assignment,    \* find_assignment's return value
    existing,      \* gen_password_christmas's existing_set (admin_generate's existing)
    attempts,      \* iterations of gen_password_christmas's loop started so far
    candidate,     \* gen_password_christmas's candidate, the last one built
    pw,            \* gen_password_christmas's return value
    name_idx,      \* admin_generate: index of the name "for name in names" is at
    participants,  \* admin_generate's participants dict
    start_pc,      \* position of the running admin_start POST
    response,      \* the response of the request that ended last
    db_names,      \* config row "names" (absent or []: <<>>)
    db_compat,     \* config row "compat" (absent or []: <<>>)
    db_participants \* table participants: name -> [password, receiver]

fa_vars == <<names, compat, max_tries, tries, perm, assignment>>
gp_vars == <<existing, attempts, candidate, pw>>
ag_vars == <<name_idx, participants>>
db_vars == <<db_names, db_compat, db_participants>>
app_vars == <<ag_vars, start_pc, response, db_vars>>
vars == <<pc, caller, fa_vars, gp_vars, app_vars>>

\* ------------------------------------------------------------------ bounds

\* Largest number of names of a find_assignment call.
MaxN == 3
\* Largest max_tries of a find_assignment call.
MaxTries == 2
\* How many of the 22 adjectifs, of the 17 noms and of the suffixes 10..99 the
\* random choices range over.
NumAdj == 1
NumNoms == 2
NumSuffix == 1
\* Iterations of gen_password_christmas's loop (range(100) in the code).
MaxAttempts == 2
\* Largest existing_set of a gen_password_christmas call.
MaxExisting == 3
\* max_tries of admin_generate's call (100000 in the code).
GenerateMaxTries == 2
\* Largest number of lines of a names form sent to admin_start.
MaxLines == 3
\* Largest number of checkboxes of the pre-filled default matrix form the
\* admin toggles before sending it to admin_matrix.
MaxToggles == 1

\* ----------------------------------------------------------- Python values

\* range(n)
range(n) == 0 .. (n - 1)

\* len(l) of a list
len(l) == Cardinality(DOMAIN l)

\* the values of a list
Elems(l) == {l[i] : i \in DOMAIN l}

\* None, and a returned dict
None == [is_none |-> TRUE, value |-> <<>>]
Some(d) == [is_none |-> FALSE, value |-> d]

\* Names the inputs are drawn from.
NamePool == <<"A", "B", "C", "D", "E">>

\* [NamePool[1], ..., NamePool[n]] as a Python list
FirstNames(n) == [i \in range(n) |-> NamePool[i + 1]]

\* the n x n matrices of 0/1 entries
Matrices(n) == [range(n) -> [range(n) -> {0, 1}]]

\* ---------------------------------------------------------- find_assignment

\* idx = list(range(n))
idx_of(n) == [i \in range(n) |-> i]

\* perm = idx[:]; random.shuffle(perm): every rearrangement of idx
shuffle_mutant_with_replacement(idx) == [DOMAIN idx -> Elems(idx)]

shuffle(idx) ==
    {p \in [DOMAIN idx -> Elems(idx)] :
        \A i, j \in DOMAIN idx : p[i] = p[j] => i = j}

\* the loop "for i, j in enumerate(perm)": ok stays True iff no entry
\* compat_matrix[i][j] differs from 1
accepts_mutant_transposed(compat_matrix, p) ==
    \A i \in DOMAIN p : compat_matrix[p[i]][i] = 1

accepts_mutant_last_only(compat_matrix, p) ==
    \A i \in DOMAIN p : (\A k \in DOMAIN p : k <= i) => compat_matrix[i][p[i]] = 1

accepts_mutant_no_self(compat_matrix, p) ==
    \A i \in DOMAIN p : compat_matrix[i][p[i]] = 1 /\ p[i] # i

accepts_mutant_inverted(compat_matrix, p) ==
    \A i \in DOMAIN p : compat_matrix[i][p[i]] # 1

accepts(compat_matrix, p) ==
    \A i \in DOMAIN p : compat_matrix[i][p[i]] = 1

\* {names[i]: names[perm[i]] for i in range(n)}: a later i overwrites an
\* earlier one with the same key
dict_of(nms, p) ==
    [k \in Elems(nms) |->
        LET last == CHOOSE i \in DOMAIN nms :
                        /\ nms[i] = k
                        /\ \A j \in DOMAIN nms : nms[j] = k => j <= i
        IN  nms[p[last]]]

\* "for _ in range(max_tries)" has another iteration to run
loop_continues_mutant_off_by_one(t, m) == t <= m

loop_continues(t, m) == t < m

\* where a return of find_assignment continues
fa_return_pc == IF caller = "admin_generate" THEN "ag_assigned" ELSE "returned"

\* n = len(names); if n == 0: return {}; idx = list(range(n))
fa_enter_mutant_no_empty_check ==
    /\ pc = "find_assignment"
    /\ pc' = "fa_loop"
    /\ tries' = 0
    /\ UNCHANGED <<caller, names, compat, max_tries, perm, assignment, gp_vars, app_vars>>

fa_enter ==
    /\ pc = "find_assignment"
    /\ IF len(names) = 0
       THEN /\ assignment' = Some(<<>>)
            /\ pc' = fa_return_pc
            /\ UNCHANGED tries
       ELSE /\ pc' = "fa_loop"
            /\ tries' = 0
            /\ UNCHANGED assignment
    /\ UNCHANGED <<caller, names, compat, max_tries, perm, gp_vars, app_vars>>

\* the locals of admin_generate and of its calls are gone once it returns
ag_frame_popped ==
    /\ names' = <<>>
    /\ compat' = <<>>
    /\ max_tries' = 0
    /\ tries' = 0
    /\ perm' = <<>>
    /\ assignment' = None
    /\ existing' = {}
    /\ attempts' = 0
    /\ candidate' = ""
    /\ pw' = ""
    /\ name_idx' = 0
    /\ participants' = <<>>
    /\ caller' = "direct"

\* compat_matrix[i][j] is an index out of range
out_of_range(compat_matrix, i, j) ==
    \/ i \notin DOMAIN compat_matrix
    \/ j \notin DOMAIN compat_matrix[i]

\* every compat_matrix[i][p[i]] exists
indices_in_range(compat_matrix, p) ==
    \A i \in DOMAIN p : ~out_of_range(compat_matrix, i, p[i])

\* "for i, j in enumerate(perm): if compat_matrix[i][j] != 1: break" reaches
\* an index out of range before it breaks: IndexError
raises_index_error(compat_matrix, p) ==
    \E i \in DOMAIN p :
        /\ out_of_range(compat_matrix, i, p[i])
        /\ \A k \in DOMAIN p :
            k < i => /\ ~out_of_range(compat_matrix, k, p[k])
                     /\ compat_matrix[k][p[k]] = 1

\* the IndexError leaves find_assignment; inside admin_generate nothing
\* catches it and the request ends with a server error
fa_raise(p) ==
    IF caller = "admin_generate"
    THEN /\ response' = <<"internal_server_error">>
         /\ pc' = "idle"
         /\ ag_frame_popped
         /\ UNCHANGED <<start_pc, db_vars>>
    ELSE /\ perm' = p
         /\ tries' = tries + 1
         /\ pc' = "raised"
         /\ UNCHANGED <<caller, names, compat, max_tries, assignment,
                        gp_vars, app_vars>>

\* one iteration of the loop: shuffle, test, return the dict on success
fa_iterate ==
    /\ pc = "fa_loop"
    /\ loop_continues(tries, max_tries)
    /\ \E p \in shuffle(idx_of(len(names))) :
        IF raises_index_error(compat, p)
        THEN fa_raise(p)
        ELSE /\ perm' = p
             /\ tries' = tries + 1
             /\ IF indices_in_range(compat, p) /\ accepts(compat, p)
                THEN /\ assignment' = Some(dict_of(names, p))
                     /\ pc' = fa_return_pc
                ELSE UNCHANGED <<assignment, pc>>
             /\ UNCHANGED <<caller, names, compat, max_tries, gp_vars, app_vars>>

\* the loop ran max_tries times without a return: return None
fa_exhausted ==
    /\ pc = "fa_loop"
    /\ ~loop_continues(tries, max_tries)
    /\ assignment' = None
    /\ pc' = fa_return_pc
    /\ UNCHANGED <<caller, names, compat, max_tries, tries, perm, gp_vars, app_vars>>

find_assignment == fa_enter \/ fa_iterate \/ fa_exhausted

\* ---------------------------------------------------- gen_password_christmas

adjectifs ==
    <<"joyeux", "blanc", "rouge", "vert", "dore", "argente", "brillant",
      "festif", "magique", "hivernal", "sucre", "gourmand", "glace",
      "etincelant", "lumineux", "merveilleux", "etonnant", "petillant",
      "enchante", "radieux", "epique", "fantastique">>

noms ==
    <<"sapin", "renne", "lutin", "traineau", "bonnet", "cadeau", "houx",
      "flocon", "pain_depice", "ours", "elfe", "jouet", "carillon",
      "bonhomme", "ruban", "pere_noel", "rudolf">>

\* the smaller of two numbers
Min(a, b) == IF a <= b THEN a ELSE b

\* random.choice(adjectifs), random.choice(noms), random.randint(10, 99)
choice_adjectifs == {adjectifs[i] : i \in 1 .. Min(NumAdj, Len(adjectifs))}
choice_noms == {noms[i] : i \in 1 .. Min(NumNoms, Len(noms))}
randint_10_99 == 10 .. Min(10 + NumSuffix - 1, 99)

\* f"{adjectif}_{nom}"
format_candidate(a, n) == a \o "_" \o n

\* f"{adjectif}_{nom}_{number}"
format_fallback(a, n, k) == a \o "_" \o n \o "_" \o ToString(k)

\* every candidate of the loop, every value of the fallback
all_candidates == {format_candidate(a, n) : a \in choice_adjectifs, n \in choice_noms}
all_fallbacks ==
    {format_fallback(a, n, k) : a \in choice_adjectifs, n \in choice_noms, k \in randint_10_99}

\* "candidate not in existing_set"
is_free_mutant_no_check(c, existing_set) == TRUE

is_free(c, existing_set) == c \notin existing_set

\* "for _ in range(100)" has another iteration to run
gp_loop_continues_mutant_off_by_one(a) == a <= MaxAttempts

gp_loop_continues(a) == a < MaxAttempts

\* where a return of gen_password_christmas continues
gp_return_pc == IF caller = "admin_generate" THEN "ag_password" ELSE "pw_returned"

\* the call is entered: existing_set is a set (None became set()), the loop
\* starts
gp_enter ==
    /\ pc = "gen_password"
    /\ attempts' = 0
    /\ pc' = "gp_loop"
    /\ UNCHANGED <<caller, fa_vars, existing, candidate, pw, app_vars>>

\* one iteration of the loop: build a candidate, return it if it is free
gp_iterate ==
    /\ pc = "gp_loop"
    /\ gp_loop_continues(attempts)
    /\ \E a \in choice_adjectifs, n \in choice_noms :
        /\ candidate' = format_candidate(a, n)
        /\ attempts' = attempts + 1
        /\ IF is_free(format_candidate(a, n), existing)
           THEN /\ pw' = format_candidate(a, n)
                /\ pc' = gp_return_pc
           ELSE UNCHANGED <<pw, pc>>
    /\ UNCHANGED <<caller, fa_vars, existing, app_vars>>

\* every iteration collided: return a fresh pair with a numeric suffix,
\* unchecked
gp_fallback ==
    /\ pc = "gp_loop"
    /\ ~gp_loop_continues(attempts)
    /\ \E a \in choice_adjectifs, n \in choice_noms, k \in randint_10_99 :
        pw' = format_fallback(a, n, k)
    /\ pc' = gp_return_pc
    /\ UNCHANGED <<caller, fa_vars, existing, attempts, candidate, app_vars>>

gen_password_christmas == gp_enter \/ gp_iterate \/ gp_fallback

\* no call of gen_password_christmas has been made
gp_idle ==
    /\ existing = {}
    /\ attempts = 0
    /\ candidate = ""
    /\ pw = ""

\* no request has been handled, nothing is stored
app_idle ==
    /\ name_idx = 0
    /\ participants = <<>>
    /\ start_pc = "idle"
    /\ response = <<"none">>
    /\ db_names = <<>>
    /\ db_compat = <<>>
    /\ db_participants = <<>>

\* no call of find_assignment has been made
fa_idle ==
    /\ names = <<>>
    /\ compat = <<>>
    /\ max_tries = 0
    /\ tries = 0
    /\ perm = <<>>
    /\ assignment = None

\* ------------------------------------------------------------- persistence

\* db_get_config(key) or []
db_get_config_or_empty(row) == row

\* db_get_all_participants(): {r.name: {"password": ..., "target": r.receiver}}
db_get_all_participants(rows) ==
    [nm \in DOMAIN rows |->
        [password |-> rows[nm].password, target |-> rows[nm].receiver]]

\* db_save_participants(participants): delete every row, add one row per
\* item, commit
db_save_participants_mutant_keep_existing_rows(parts) ==
    [nm \in DOMAIN parts \cup DOMAIN db_participants |->
        IF nm \in DOMAIN db_participants
        THEN db_participants[nm]
        ELSE [password |-> parts[nm].password, receiver |-> parts[nm].target]]

db_save_participants(parts) ==
    [nm \in DOMAIN parts |->
        [password |-> parts[nm].password, receiver |-> parts[nm].target]]

\* ------------------------------------------------------------- admin_start

\* a 1-indexed sequence as a Python list
to_list(sq) == [i \in range(Len(sq)) |-> sq[i + 1]]

\* l.strip() on a line given as its characters
RECURSIVE lstrip(_)
lstrip(cs) == IF cs # <<>> /\ Head(cs) = " " THEN lstrip(Tail(cs)) ELSE cs

RECURSIVE rstrip(_)
rstrip(cs) ==
    IF cs # <<>> /\ cs[Len(cs)] = " " THEN rstrip(SubSeq(cs, 1, Len(cs) - 1)) ELSE cs

strip(cs) == rstrip(lstrip(cs))

\* the string of a sequence of characters
RECURSIVE join_chars(_)
join_chars(cs) == IF cs = <<>> THEN "" ELSE Head(cs) \o join_chars(Tail(cs))

\* [l.strip() for l in ... if l.strip()]
RECURSIVE stripped_lines(_)
stripped_lines(raw) ==
    IF raw = <<>> THEN <<>>
    ELSE IF strip(Head(raw)) = <<>> THEN stripped_lines(Tail(raw))
    ELSE <<join_chars(strip(Head(raw)))>> \o stripped_lines(Tail(raw))

\* the loop "for l in lines: if l not in seen: names.append(l); seen.add(l)"
dedup_mutant_keeps_duplicates(lines, seen) == lines

RECURSIVE dedup(_, _)
dedup(lines, seen) ==
    IF lines = <<>> THEN <<>>
    ELSE IF Head(lines) \in seen THEN dedup(Tail(lines), seen)
    ELSE <<Head(lines)>> \o dedup(Tail(lines), seen \cup {Head(lines)})

\* the names of a posted form, given as the lines of
\* raw.replace(",", "\n").splitlines()
parse_names(raw) == to_list(dedup(stripped_lines(raw), {}))

\* the lines a form may hold at position i: spaces only, the i-th pool
\* name, that name padded with spaces, or the first pool name again
LineChoices(i) ==
    {<<" ">>, <<NamePool[i]>>, <<" ", NamePool[i], " ">>, <<NamePool[1]>>}

\* the names forms sent to admin_start
RawForms ==
    UNION {{raw \in [1 .. n -> UNION {LineChoices(i) : i \in 1 .. n}] :
                \A i \in 1 .. n : raw[i] \in LineChoices(i)} : n \in 0 .. MaxLines}

\* POST /admin/start up to db_set_config("names", names): parse, refuse
\* fewer than 2 names, else store the names
admin_start_post(raw) ==
    /\ start_pc = "idle"
    /\ LET parsed == parse_names(raw)
       IN  IF len(parsed) < 2
           THEN /\ response' = <<"il_faut_au_moins_2_participants">>
                /\ UNCHANGED <<start_pc, db_vars>>
           ELSE /\ db_names' = parsed
                /\ start_pc' = "reset_compat"
                /\ response' = <<"none">>
                /\ UNCHANGED <<db_compat, db_participants>>
    /\ UNCHANGED <<pc, caller, fa_vars, gp_vars, ag_vars>>

\* db_set_config("compat", [])
admin_start_reset_compat ==
    /\ start_pc = "reset_compat"
    /\ db_compat' = <<>>
    /\ start_pc' = "clear_participants"
    /\ UNCHANGED <<pc, caller, fa_vars, gp_vars, ag_vars, response,
                   db_names, db_participants>>

\* db_clear_participants(), then the redirect to admin_matrix
admin_start_clear_participants_mutant_keeps_rows ==
    /\ start_pc = "clear_participants"
    /\ start_pc' = "idle"
    /\ response' = <<"liste_enregistree">>
    /\ UNCHANGED <<pc, caller, fa_vars, gp_vars, ag_vars, db_vars>>

admin_start_clear_participants ==
    /\ start_pc = "clear_participants"
    /\ db_participants' = <<>>
    /\ start_pc' = "idle"
    /\ response' = <<"liste_enregistree">>
    /\ UNCHANGED <<pc, caller, fa_vars, gp_vars, ag_vars, db_names, db_compat>>

\* ------------------------------------------------------------ admin_matrix

\* the boxes checked in the form the GET pre-fills when no matrix is stored:
\* all but the diagonal
default_form(n) == {c \in range(n) \X range(n) : c[1] # c[2]}

\* the boxes in which two forms differ
toggled(f, g) == (f \ g) \cup (g \ f)

\* the matrix forms sent to admin_matrix: the default form or the blank form,
\* with some boxes toggled
MatrixForms(n) ==
    {f \in SUBSET (range(n) \X range(n)) :
        \/ Cardinality(toggled(f, default_form(n))) <= MaxToggles
        \/ Cardinality(toggled(f, {})) <= MaxToggles}

\* compat[i][j] = 1 if request.form.get(f"c_{i}_{j}") == "on" else 0
compat_of_form(n, form) ==
    [i \in range(n) |-> [j \in range(n) |-> IF <<i, j>> \in form THEN 1 ELSE 0]]

\* sum(compat[i]) == 0
row_is_empty_mutant_never(row) == \E j \in DOMAIN row : row[j] # row[j]

row_is_empty(row) == \A j \in DOMAIN row : row[j] = 0

\* the row at which "for i in range(n): if sum(compat[i]) == 0" returns
first_empty_row(posted) ==
    CHOOSE i \in DOMAIN posted :
        /\ row_is_empty(posted[i])
        /\ \A j \in DOMAIN posted : row_is_empty(posted[j]) => i <= j

\* POST /admin/matrix: no names: redirect; an empty row: refuse, naming the
\* first such participant and rendering the form again with the names and the
\* posted matrix; else store the matrix
admin_matrix_post(form) ==
    /\ LET nms == db_get_config_or_empty(db_names)
           n == len(nms)
           posted == compat_of_form(n, form)
       IN  IF n = 0
           THEN /\ response' = <<"redirect_admin_start">>
                /\ UNCHANGED db_compat
           ELSE IF \E i \in range(n) : row_is_empty(posted[i])
           THEN /\ response' =
                    <<"ligne_vide", nms[first_empty_row(posted)], nms, posted>>
                /\ UNCHANGED db_compat
           ELSE /\ db_compat' = posted
                /\ response' = <<"matrice_enregistree">>
    /\ UNCHANGED <<pc, caller, fa_vars, gp_vars, ag_vars, start_pc,
                   db_names, db_participants>>

\* ---------------------------------------------------------- admin_generate

\* the request begins (no response yet): names = db_get_config("names") or []
ag_read_names ==
    /\ pc = "idle"
    /\ names' = db_get_config_or_empty(db_names)
    /\ pc' = "ag_read_compat"
    /\ caller' = "admin_generate"
    /\ response' = <<"none">>
    /\ UNCHANGED <<compat, max_tries, tries, perm, assignment, gp_vars, ag_vars,
                   start_pc, db_vars>>

\* compat = db_get_config("compat") or []; missing data: redirect to
\* admin_start; else call find_assignment(names, compat, max_tries=100000)
ag_read_compat ==
    /\ pc = "ag_read_compat"
    /\ LET read == db_get_config_or_empty(db_compat)
       IN  IF len(names) = 0 \/ len(read) = 0
           THEN /\ response' = <<"donnees_manquantes">>
                /\ pc' = "idle"
                /\ ag_frame_popped
                /\ UNCHANGED <<start_pc, db_vars>>
           ELSE /\ compat' = read
                /\ max_tries' = GenerateMaxTries
                /\ pc' = "find_assignment"
                /\ UNCHANGED <<caller, names, tries, perm, assignment, gp_vars,
                               app_vars>>

\* find_assignment returned. None: flash and redirect to admin_matrix;
\* else existing = set(); participants = {} and the loop over names starts
ag_assigned_mutant_clears_on_failure ==
    /\ pc = "ag_assigned"
    /\ IF assignment = None
       THEN /\ response' = <<"impossible_de_trouver_une_affectation">>
            /\ pc' = "idle"
            /\ ag_frame_popped
            /\ db_participants' = <<>>
            /\ UNCHANGED <<start_pc, db_names, db_compat>>
       ELSE /\ existing' = {}
            /\ participants' = <<>>
            /\ name_idx' = 0
            /\ tries' = 0
            /\ perm' = <<>>
            /\ pc' = "ag_names_loop"
            /\ UNCHANGED <<caller, names, compat, max_tries, assignment,
                           attempts, candidate, pw, start_pc, response, db_vars>>

ag_assigned ==
    /\ pc = "ag_assigned"
    /\ IF assignment = None
       THEN /\ response' = <<"impossible_de_trouver_une_affectation">>
            /\ pc' = "idle"
            /\ ag_frame_popped
            /\ UNCHANGED <<start_pc, db_vars>>
       ELSE /\ existing' = {}
            /\ participants' = <<>>
            /\ name_idx' = 0
            /\ tries' = 0
            /\ perm' = <<>>
            /\ pc' = "ag_names_loop"
            /\ UNCHANGED <<caller, names, compat, max_tries, assignment,
                           attempts, candidate, pw, start_pc, response, db_vars>>

\* "for name in names": another name: call gen_password_christmas(existing)
ag_next_name ==
    /\ pc = "ag_names_loop"
    /\ name_idx < len(names)
    /\ pc' = "gen_password"
    /\ UNCHANGED <<caller, fa_vars, gp_vars, app_vars>>

\* pw returned: existing.add(pw);
\* participants[name] = {"target": assignment[name], "password": pw}
ag_password ==
    /\ pc = "ag_password"
    /\ LET name == names[name_idx]
       IN  /\ existing' = existing \cup {pw}
           /\ participants' =
                [nm \in DOMAIN participants \cup {name} |->
                    IF nm = name
                    THEN [target |-> assignment.value[name], password |-> pw]
                    ELSE participants[nm]]
    /\ name_idx' = name_idx + 1
    /\ attempts' = 0
    /\ candidate' = ""
    /\ pw' = ""
    /\ pc' = "ag_names_loop"
    /\ UNCHANGED <<caller, fa_vars, start_pc, response, db_vars>>

\* the loop is over: db_save_participants(participants), then
\* saved = db_get_all_participants() is rendered
ag_save ==
    /\ pc = "ag_names_loop"
    /\ name_idx >= len(names)
    /\ db_participants' = db_save_participants(participants)
    /\ response' = <<"affectations_generees", db_get_all_participants(db_participants')>>
    /\ pc' = "idle"
    /\ ag_frame_popped
    /\ UNCHANGED <<start_pc, db_names, db_compat>>

admin_generate ==
    \/ ag_read_names
    \/ ag_read_compat
    \/ find_assignment
    \/ ag_assigned
    \/ ag_next_name
    \/ gen_password_christmas
    \/ ag_password
    \/ ag_save

\* ------------------------------------------------- requests, one at a time

\* no request is being handled
AllIdle == pc = "idle" /\ start_pc = "idle"

\* Nothing is stored and no request has been handled.
Init ==
    /\ pc = "idle"
    /\ caller = "direct"
    /\ fa_idle
    /\ gp_idle
    /\ app_idle

\* The admin's requests, each handled to its end before the next begins.
Next ==
    \/ (pc = "idle" /\ \E raw \in RawForms : admin_start_post(raw))
    \/ admin_start_reset_compat
    \/ admin_start_clear_participants
    \/ (AllIdle /\ \E form \in MatrixForms(len(db_names)) : admin_matrix_post(form))
    \/ (start_pc = "idle" /\ ag_read_names)
    \/ ag_read_compat
    \/ fa_enter
    \/ fa_iterate
    \/ fa_exhausted
    \/ ag_assigned
    \/ ag_next_name
    \/ gp_enter
    \/ gp_iterate
    \/ gp_fallback
    \/ ag_password
    \/ ag_save

Spec == Init /\ [][Next]_vars

\* ------------------------------------------- find_assignment called directly

\* A call find_assignment(names, compat_matrix, max_tries) on n distinct names
\* and an n x n 0/1 matrix (for n = 0, a matrix of any dimension).
InitResolve ==
    /\ pc = "find_assignment"
    /\ caller = "direct"
    /\ \E n \in 0 .. MaxN :
        /\ names = FirstNames(n)
        /\ \E d \in (IF n = 0 THEN {0, 1} ELSE {n}) : compat \in Matrices(d)
    /\ max_tries \in 1 .. MaxTries
    /\ tries = 0
    /\ perm = <<>>
    /\ assignment = None
    /\ gp_idle
    /\ app_idle

NextResolve == find_assignment

SpecResolve == InitResolve /\ [][NextResolve]_vars

\* find_assignment runs to completion once called
SpecResolveFair == SpecResolve /\ WF_vars(NextResolve)

\* ------------------------------------------------ claims on find_assignment

\* the index of name x in the list nms
index_of(nms, x) == CHOOSE i \in DOMAIN nms : nms[i] = x

\* find_assignment has returned a dict
ReturnedDict == pc = "returned" /\ ~assignment.is_none

\* find_assignment has returned None
ReturnedNone == pc = "returned" /\ assignment.is_none

\* some row of the matrix sums to zero
HasZeroRow(m) == \E i \in DOMAIN m : \A j \in DOMAIN m[i] : m[i][j] = 0

\* C1: whenever find_assignment returns a mapping M, every giver names[i] is
\* permitted its recipient: compat[i][index-of(M[names[i]])] = 1.
C1_AssignmentRespectsMatrix ==
    ReturnedDict =>
        \A i \in DOMAIN names :
            compat[i][index_of(names, assignment.value[names[i]])] = 1

\* a mapping returned for 3 names on the second draw, under a matrix that
\* forbids some pair off the diagonal
C1_Witness ==
    /\ ReturnedDict
    /\ len(names) = 3
    /\ tries = 2
    /\ \E i, j \in DOMAIN compat : i # j /\ compat[i][j] = 0

\* C2: a returned mapping is a bijection on the names: its keys are exactly
\* the names and every name is the target of exactly one giver.
C2_AssignmentIsBijection ==
    ReturnedDict =>
        /\ DOMAIN assignment.value = Elems(names)
        /\ \A t \in Elems(names) :
            Cardinality({g \in DOMAIN assignment.value :
                            assignment.value[g] = t}) = 1

\* a mapping returned for 3 names in which nobody keeps their own name
C2_Witness ==
    /\ ReturnedDict
    /\ len(names) = 3
    /\ \A g \in DOMAIN assignment.value : assignment.value[g] # g

IsSwapCall ==
    /\ names = FirstNames(2)
    /\ compat = [i \in range(2) |-> [j \in range(2) |-> IF i = j THEN 0 ELSE 1]]

SwapDict == [k \in {"A", "B"} |-> IF k = "A" THEN "B" ELSE "A"]

\* C4 as stated: on [A, B] with [[0,1],[1,0]] the call returns {A->B, B->A}
\* whatever the random source draws.
C4_SwapAlwaysReturned ==
    (pc = "returned" /\ IsSwapCall) => assignment = Some(SwapDict)

\* C4 amended: on [A, B] with [[0,1],[1,0]] the only mapping the call can
\* return is {A->B, B->A}; it returns None instead when each of the max_tries
\* draws was the identity.
C4_SwapOrNone ==
    (pc = "returned" /\ IsSwapCall) =>
        \/ assignment = Some(SwapDict)
        \/ /\ assignment = None
           /\ tries = max_tries
           /\ perm = idx_of(2)

\* {A->B, B->A} returned on the second draw, after a rejected identity
C4_Witness ==
    /\ pc = "returned"
    /\ IsSwapCall
    /\ assignment = Some(SwapDict)
    /\ tries = 2

\* the call of C5: names [A, B, C], every entry 1 except the diagonal
IsDerangementCall ==
    /\ names = FirstNames(3)
    /\ compat = [i \in range(3) |-> [j \in range(3) |-> IF i = j THEN 0 ELSE 1]]

CycleForward ==
    [k \in {"A", "B", "C"} |-> IF k = "A" THEN "B" ELSE IF k = "B" THEN "C" ELSE "A"]

CycleBackward ==
    [k \in {"A", "B", "C"} |-> IF k = "A" THEN "C" ELSE IF k = "B" THEN "A" ELSE "B"]

\* C5 as stated: on [A, B, C] with the off-diagonal matrix the call returns
\* one of the two derangements.
C5_DerangementAlwaysReturned ==
    (pc = "returned" /\ IsDerangementCall) =>
        assignment \in {Some(CycleForward), Some(CycleBackward)}

\* C5 amended: on [A, B, C] with the off-diagonal matrix the only mappings
\* the call can return are the two derangements; it returns None instead
\* when each of the max_tries draws had a fixed point.
C5_DerangementOrNone ==
    (pc = "returned" /\ IsDerangementCall) =>
        \/ assignment \in {Some(CycleForward), Some(CycleBackward)}
        \/ /\ assignment = None
           /\ tries = max_tries
           /\ \E i \in DOMAIN perm : perm[i] = i

\* the backward cycle returned on the second draw
C5_Witness ==
    /\ pc = "returned"
    /\ IsDerangementCall
    /\ assignment = Some(CycleBackward)
    /\ tries = 2

\* C6: with no names the call returns the empty dict at once: the loop is
\* never entered and nothing is drawn, whatever the matrix and max_tries.
C6_EmptyNamesNoDraws ==
    len(names) = 0 =>
        /\ pc \in {"find_assignment", "returned"}
        /\ tries = 0
        /\ perm = <<>>
        /\ pc = "returned" => assignment = Some(<<>>)

\* the empty dict returned for no names, a 1 x 1 matrix and max_tries = 2
C6_Witness ==
    /\ pc = "returned"
    /\ len(names) = 0
    /\ len(compat) = 1
    /\ max_tries = 2
    /\ assignment = Some(<<>>)

\* the draws of a call stay within max_tries; a candidate the loop went past
\* was rejected, a returned dict is the accepted last candidate, and None
\* follows max_tries rejected candidates
DrawsWithinBudget ==
    /\ tries <= max_tries
    /\ (pc = "fa_loop" /\ tries > 0) => ~accepts(compat, perm)
    /\ (ReturnedDict /\ len(names) > 0) =>
            /\ tries >= 1
            /\ accepts(compat, perm)
            /\ assignment.value = dict_of(names, perm)
    /\ ReturnedNone => (tries = max_tries /\ ~accepts(compat, perm))

\* C7: find_assignment terminates after at most max_tries draws: it returns
\* on the first accepted candidate, and returns None only after exactly
\* max_tries candidates were each rejected.
C7_TerminatesWithinBudget ==
    /\ []DrawsWithinBudget
    /\ <>(pc = "returned")

\* a dict returned for 3 names on the last permitted draw
C7_Witness ==
    /\ ReturnedDict
    /\ len(names) = 3
    /\ max_tries = 2
    /\ tries = max_tries

\* -------------------------------------- gen_password_christmas called directly

\* the sets of at most k elements of S
SubsetsUpTo(S, k) == {e \in SUBSET S : Cardinality(e) <= k}

\* A call gen_password_christmas(existing_set) on a set of passwords issued
\* before: candidates and fallback values.
InitToken ==
    /\ pc = "gen_password"
    /\ caller = "direct"
    /\ fa_idle
    /\ existing \in SubsetsUpTo(all_candidates \cup all_fallbacks, MaxExisting)
    /\ attempts = 0
    /\ candidate = ""
    /\ pw = ""
    /\ app_idle

NextToken == gen_password_christmas

SpecToken == InitToken /\ [][NextToken]_vars

\* gen_password_christmas runs to completion once called
SpecTokenFair == SpecToken /\ WF_vars(NextToken)

\* ------------------------------------------ claims on gen_password_christmas

\* the call returned from its fallback line: every iteration of the loop
\* collided
TookFallback ==
    /\ attempts = MaxAttempts
    /\ candidate \in existing
    /\ pw \in all_fallbacks

\* C8: gen_password_christmas never returns a member of existing_set, for any
\* existing_set smaller than the adjective x noun space, unless it returned
\* from the fallback line.
C8_ReturnsFreshUnlessFallback ==
    (pc = "pw_returned"
        /\ Cardinality(existing) < Cardinality(all_candidates)) =>
        (pw \notin existing \/ TookFallback)

\* a candidate returned on the second iteration, after the first collided
\* with the one password issued before
C8_Witness ==
    /\ pc = "pw_returned"
    /\ Cardinality(existing) = 1
    /\ Cardinality(existing) < Cardinality(all_candidates)
    /\ attempts = 2
    /\ pw = candidate
    /\ pw \notin existing

\* ------------------------------------------------- claims on admin_generate

\* admin_generate's loop over the names is over: the batch is complete and
\* about to be saved
BatchComplete == pc = "ag_names_loop" /\ name_idx >= len(names)

\* C9: the passwords issued in one admin_generate batch do not collide: after
\* the loop over all names, any two distinct participants have different
\* passwords.
C9_BatchPasswordsDistinct ==
    BatchComplete =>
        \A a, b \in DOMAIN participants :
            a # b => participants[a].password # participants[b].password

\* C10: a successful admin_generate entirely replaces any prior batch: when
\* its save commits, the persisted records are exactly one per stored name,
\* each holding the new assignment's target and the password just issued
\* for that name, and the response renders exactly these records.
C10_GenerateReplacesBatch ==
    [][(BatchComplete /\ pc' = "idle") =>
        /\ DOMAIN db_participants' = Elems(db_names')
        /\ \A nm \in DOMAIN db_participants' :
            /\ db_participants'[nm].receiver = assignment.value[nm]
            /\ db_participants'[nm].password = participants[nm].password
        /\ response' =
            <<"affectations_generees",
              [nm \in Elems(db_names') |->
                [password |-> participants[nm].password,
                 target |-> assignment.value[nm]]]>>]_vars

\* the batch for 3 names is complete and its save is the next step, while an
\* earlier batch is persisted in which every name has another target and
\* another password
C10_Witness ==
    /\ BatchComplete
    /\ len(names) = 3
    /\ DOMAIN db_participants = Elems(names)
    /\ \A nm \in DOMAIN db_participants :
        /\ db_participants[nm].receiver # assignment.value[nm]
        /\ db_participants[nm].password # participants[nm].password

\* ------------------------------ claims on gen_password_christmas's fallback

\* the candidates drawn by the call so far: one per loop iteration, one more
\* for the fallback pair
CandidateDraws == attempts + (IF pw \in all_fallbacks THEN 1 ELSE 0)

\* the loop never runs more than MaxAttempts times; what a call returns is a
\* free candidate of the loop, or, after MaxAttempts collisions, a pair with
\* a suffix of 10..99 that was not tested against existing_set
FallbackAfterAllCollide ==
    /\ attempts <= MaxAttempts
    /\ CandidateDraws <= MaxAttempts + 1
    /\ (pc = "gp_loop" /\ attempts > 0) => candidate \in existing
    /\ pc = "pw_returned" =>
        \/ /\ pw = candidate
           /\ pw \in all_candidates
           /\ pw \notin existing
        \/ /\ attempts = MaxAttempts
           /\ candidate \in existing
           /\ \E a \in choice_adjectifs, n \in choice_noms, s \in 10 .. 99 :
                pw = format_fallback(a, n, s)

\* C11: when all MaxAttempts candidates collide with existing_set the call
\* returns a freshly drawn adjective_noun pair with a two-digit suffix,
\* unchecked; it always terminates, after at most MaxAttempts + 1 candidate
\* draws.
C11_FallbackTerminates ==
    /\ []FallbackAfterAllCollide
    /\ <>(pc = "pw_returned")

\* the fallback returned a value that is itself in existing_set, after every
\* iteration collided
C11_Witness ==
    /\ pc = "pw_returned"
    /\ attempts = MaxAttempts
    /\ candidate \in existing
    /\ pw \in all_fallbacks
    /\ pw \in existing

\* ------------------------------------------- claims on a single participant

\* a call of find_assignment with exactly one name
IsSingleCall == len(names) = 1 /\ len(compat) = 1

\* C13: with one name find_assignment returns a dictionary exactly when
\* compat_matrix[0][0] is 1, and that dictionary maps the name to itself: a
\* fixed point is excluded only where the matrix excludes it.
C13_SingleSelfAssignment ==
    (pc = "returned" /\ IsSingleCall) =>
        /\ ~assignment.is_none <=> compat[0][0] = 1
        /\ ~assignment.is_none =>
            assignment.value = [nm \in {names[0]} |-> names[0]]

\* the call with one name and a true diagonal entry returned the
\* self-assignment
C13_Witness ==
    /\ ReturnedDict
    /\ IsSingleCall
    /\ compat[0][0] = 1
    /\ assignment.value[names[0]] = names[0]

\* ------------------------------------------------- claims on admin_matrix

\* the row holds no 1
RowSumsToZero(row) == \A j \in DOMAIN row : row[j] # 1

\* admin_matrix refused the posted matrix in the last request
MatrixRejected == response[1] = "ligne_vide"

\* the refusal names the first participant whose row of the posted matrix
\* sums to zero
NamesFirstZeroRow(resp) ==
    LET named == resp[2]
        nms == resp[3]
        posted == resp[4]
    IN  \E i \in DOMAIN posted :
            /\ RowSumsToZero(posted[i])
            /\ \A j \in DOMAIN posted : RowSumsToZero(posted[j]) => i <= j
            /\ named = nms[i]

\* C12: a POST to admin_matrix whose matrix has a row summing to zero is
\* refused, naming the first such participant, and the stored matrix stays as
\* it was; so a stored matrix that is not empty has a 1 in every row.
C12_ZeroRowRejected ==
    /\ [](\A i \in DOMAIN db_compat : ~RowSumsToZero(db_compat[i]))
    /\ [](MatrixRejected => NamesFirstZeroRow(response))
    /\ [][(response' # response /\ response'[1] = "ligne_vide")
            => db_compat' = db_compat]_vars

\* a matrix with two rows summing to zero was refused while another matrix
\* was stored; the second participant's row is the first such row
C12_Witness ==
    /\ AllIdle
    /\ MatrixRejected
    /\ db_compat # <<>>
    /\ response[4] # db_compat
    /\ len(response[4]) = 3
    /\ ~RowSumsToZero(response[4][0])
    /\ RowSumsToZero(response[4][1])
    /\ RowSumsToZero(response[4][2])
    /\ response[2] = response[3][1]

\* ------------------------------------------ claims on the persisted records

\* the receivers of the persisted records
Receivers == {db_participants[nm].receiver : nm \in DOMAIN db_participants}

\* the persisted records are keyed by the stored names and their receivers
\* are a permutation of them
RecordsPermuteNames ==
    /\ DOMAIN db_participants = Elems(db_names)
    /\ Receivers = Elems(db_names)
    /\ \A a, b \in DOMAIN db_participants :
        db_participants[a].receiver = db_participants[b].receiver => a = b

\* C15: between requests, persisted participant records are keyed by exactly
\* the stored names and their targets are a permutation of the stored names;
\* when admin_start has saved a names list the stored matrix is empty and no
\* participant record is left.
C15_RecordsMatchNames ==
    /\ (AllIdle /\ db_participants # <<>>) => RecordsPermuteNames
    /\ (AllIdle /\ response = <<"liste_enregistree">>) =>
        /\ db_compat = <<>>
        /\ db_participants = <<>>
        /\ len(db_names) >= 2

\* admin_generate saved records for three names, none of them drawing itself
C15_Witness ==
    /\ AllIdle
    /\ response[1] = "affectations_generees"
    /\ len(db_names) = 3
    /\ DOMAIN db_participants = Elems(db_names)
    /\ \A nm \in DOMAIN db_participants : db_participants[nm].receiver # nm

\* ------------------------------------- claims on a failed admin_generate

\* find_assignment has returned None to admin_generate
AssignmentNotFound == pc = "ag_assigned" /\ assignment.is_none

\* admin_generate ended its last request on a failed find_assignment
GenerateFailed == response = <<"impossible_de_trouver_une_affectation">>

\* C17: when find_assignment returns None to admin_generate the request ends
\* with the stored names, the stored matrix and the persisted participant
\* records as they were when it began: no step of the request before the
\* return wrote them, and the step that handles None writes nothing.
C17_FailureLeavesStateUntouched ==
    [][/\ AssignmentNotFound =>
            /\ pc' = "idle"
            /\ GenerateFailed'
            /\ UNCHANGED db_vars
       /\ pc \in {"ag_read_compat", "find_assignment", "fa_loop", "ag_assigned"}
            => UNCHANGED db_vars]_vars

\* a request failed while records of an earlier batch were persisted; they
\* are still there, with the names and the matrix
C17_Witness ==
    /\ AllIdle
    /\ GenerateFailed
    /\ db_participants # <<>>
    /\ DOMAIN db_participants = Elems(db_names)
    /\ len(db_compat) = len(db_names)

\* -------------------------------------------------- claims on stored names

\* the distinct names a posted form holds: its lines without surrounding
\* spaces, blank lines left out
DistinctNames(raw) ==
    {join_chars(strip(raw[i])) : i \in {k \in DOMAIN raw : strip(raw[k]) # <<>>}}

\* admin_start refused the posted names in the last request
NamesRejected == response = <<"il_faut_au_moins_2_participants">>

\* the forms admin_start refuses are those holding fewer than 2 distinct
\* names, and what it keeps of the others are their distinct names
RefusesFewerThanTwo ==
    \A raw \in RawForms :
        /\ len(parse_names(raw)) < 2 <=> Cardinality(DistinctNames(raw)) < 2
        /\ Elems(parse_names(raw)) = DistinctNames(raw)

\* no name is stored twice
NoDuplicateNames ==
    \A i, j \in DOMAIN db_names : db_names[i] = db_names[j] => i = j

\* C18: the stored names list never holds a name twice and is empty or holds
\* at least 2 names; a POST to admin_start is refused exactly when its form
\* holds fewer than 2 distinct names, and a refused POST leaves the stored
\* names, the stored matrix and the participant records as they were.
C18_StoredNamesDistinct ==
    /\ [](NoDuplicateNames /\ len(db_names) # 1)
    /\ []RefusesFewerThanTwo
    /\ [][(response' # response /\ NamesRejected') => UNCHANGED db_vars]_vars
    /\ [][db_names' # db_names =>
            /\ NoDuplicateNames'
            /\ len(db_names') >= 2]_vars

\* a form was refused while three names, a matrix and records were stored
C18_Witness ==
    /\ AllIdle
    /\ NamesRejected
    /\ len(db_names) = 3
    /\ NoDuplicateNames
    /\ db_compat # <<>>
    /\ db_participants # <<>>

\* ------------------------- claims on the records and the stored matrix

\* the stored matrix permits the receiver of every persisted record
TargetsPermitted ==
    \A nm \in DOMAIN db_participants :
        \E i, j \in DOMAIN db_names :
            /\ db_names[i] = nm
            /\ db_names[j] = db_participants[nm].receiver
            /\ i \in DOMAIN db_compat
            /\ j \in DOMAIN db_compat[i]
            /\ db_compat[i][j] = 1

\* C14: between requests, whenever participant records are persisted, the
\* stored matrix permits the target of every record for its participant.
C14_RecordsPermittedByStoredMatrix ==
    (AllIdle /\ db_participants # <<>>) => TargetsPermitted

\* ------------------------------- admin_start and admin_generate concurrently

\* the matrices admin_matrix stores for n names: those of the forms it
\* does not refuse
StoredMatrices(n) ==
    {compat_of_form(n, form) : form \in
        {f \in MatrixForms(n) :
            \A i \in range(n) : ~row_is_empty(compat_of_form(n, f)[i])}}

\* the names forms posted while admin_generate may be running: one bare
\* name per line
ConcRawForms == {raw \in RawForms : \A i \in DOMAIN raw : strip(raw[i]) = raw[i]}

\* names and a matrix for them are stored, no request is being handled
InitConc ==
    /\ pc = "idle"
    /\ caller = "direct"
    /\ fa_idle
    /\ gp_idle
    /\ name_idx = 0
    /\ participants = <<>>
    /\ start_pc = "idle"
    /\ response = <<"none">>
    /\ \E n \in 2 .. MaxLines :
        /\ db_names = FirstNames(n)
        /\ db_compat \in StoredMatrices(n)
    /\ db_participants = <<>>

\* two workers: an admin_start POST and an admin_generate request run at the
\* same time, each db_set_config, db_clear_participants and db_get_config a
\* transaction of its own
NextConc ==
    \/ \E raw \in ConcRawForms : admin_start_post(raw)
    \/ admin_start_reset_compat
    \/ admin_start_clear_participants
    \/ ag_read_names
    \/ ag_read_compat
    \/ fa_enter
    \/ fa_iterate
    \/ fa_exhausted
    \/ ag_assigned
    \/ ag_next_name
    \/ gp_enter
    \/ gp_iterate
    \/ gp_fallback
    \/ ag_password
    \/ ag_save

SpecConc == InitConc /\ [][NextConc]_vars

\* the matrix has one row per name and one column per name in every row
IsSquareFor(compat_matrix, nms) ==
    /\ len(compat_matrix) = len(nms)
    /\ \A i \in DOMAIN compat_matrix : len(compat_matrix[i]) = len(nms)

\* C16: however the three transactions of an admin_start POST interleave
\* with a concurrent admin_generate, find_assignment is called with a square
\* matrix whose dimension is the number of names it is given.
C16_ResolverGetsSquareMatrix ==
    pc \in {"find_assignment", "fa_loop"} => IsSquareFor(compat, names)

====
